---- MODULE Spec2Model ----
(***************************************************************************)
(* Attention monitoring core of app.py: the per-frame detector pipeline    *)
(* of generate_frames (drowsiness, nodding, yawning, presence), the        *)
(* last-write-wins arbitration of the published status, the session        *)
(* statistics aggregator and the HTTP handlers that reset and flush it.    *)
(*                                                                         *)
(* Units.  Ratios and probabilities (EAR, MAR, yawn probability,           *)
(* confidence) are integers in hundredths: 0.27 is 27, 1.0 is 100.  A      *)
(* comparison of a window mean with a threshold is made exactly, as        *)
(* sum < threshold * length; a mean that is stored is rounded down to a    *)
(* hundredth.  Wall-clock time is an integer number of ticks; one tick is  *)
(* one second and, in the timed specifications, one frame interval.        *)
(***************************************************************************)
EXTENDS Integers, Sequences, FiniteSets, TLC

\* Program constants (app.py:201-207), thresholds in hundredths.
YAWN_THRESHOLD == 85
YAWN_CONSEC_FRAMES == 17
NOT_ATTENTIVE_THRESHOLD == 3
DROWSY_EAR_THRESHOLD == 27
DROWSY_CONSEC_FRAMES == 10
NODDING_THRESHOLD == 15
DISTRACTION_ALERT_INTERVAL == 10
\* attention_monitoring_improved.py: seconds between two alert sounds
ALERT_COOLDOWN == 5

\* Bounds of the model.
MaxFrames == 12
MaxArbFrames == 18
MaxYawnFrames == 35
MaxErrFrames == 10
MaxTime == 4
MaxRequests == 3
MaxPasses == 2
NStreams == 2
\* seconds of the standalone monitor's run
MaxMonitorTime == 7

VARIABLES
    \* module-level detector state (app.py:216-261)
    yawn_counter, last_attentive_time, yawn_probs, drowsy_counter,
    drowsiness_score, recent_ear_values, chin_positions, nodding_counter,
    mar_list, last_distraction_alert, distraction_alert_count,
    \* aggregator and published snapshot
    session_stats, current_status,
    \* the optional classifier: TRUE when a model was loaded
    yawn_model,
    \* environment: the wall clock, and the input alphabet of the run
    now, scn,
    \* the frame loop of the sequential specifications is running (its
    \* generator has not terminated)
    streaming,
    \* the Flask session of the one client: 'username' in session,
    \* 'final_stats' in session and its value; the last analytics response
    session_username, has_final, final_stats, report,
    \* camera pacing in the timed specifications: a frame is due
    frameDue,
    \* observation of the last frame pass (its locals), the number of
    \* frames processed, and counters of the runs of frames seen so far
    obs, frames, runs,
    \* the operation that made the last step, the time of the last reset of
    \* the statistics, the number of requests served, the report of the
    \* end_session before the last (has_prev: with no frame, reset or tick
    \* between the two), and whether one came since the last end_session
    last_op, session_t0, requests, prev_final, has_prev, changedSince,
    \* end_session has stored a report and start_session has not reset the
    \* statistics since
    ended,
    \* the standalone monitor (attention_monitoring_improved.py): its clock,
    \* its last_alert_time, where each alert thread is, and the times of the
    \* last two sounds
    monitor,
    \* stream threads (one generate_frames() per /video_feed request): where
    \* each is in its pass, its locals, and the number of passes begun
    pc, loc, passes,
    \* the pass that wrote the fields current_status.update() sets, and the
    \* one that wrote ear_value
    cs_pass, ear_by,
    \* the /status handler: the next key its loop copies (0: not running),
    \* the copy made so far, and the pass each copied field came from
    rpc, safe_status, snap_by

detVars == <<yawn_counter, last_attentive_time, yawn_probs, drowsy_counter,
             drowsiness_score, recent_ear_values, chin_positions,
             nodding_counter, mar_list>>
detVarsNoLat == <<yawn_counter, yawn_probs, drowsy_counter, drowsiness_score,
                  recent_ear_values, chin_positions, nodding_counter, mar_list>>
alertVars == <<last_distraction_alert, distraction_alert_count>>
httpVars == <<session_username, has_final, final_stats, report>>
ghostVars == <<obs, frames, runs>>
histVars == <<last_op, session_t0, requests, prev_final, has_prev, changedSince>>
concVars == <<pc, loc, passes, cs_pass, ear_by, rpc, safe_status, snap_by>>
vars == <<detVars, alertVars, session_stats, current_status, yawn_model,
          now, scn, monitor, streaming, ended, httpVars, frameDue, ghostVars,
          histVars, concVars>>

----------------------------------------------------------------------------
\* Arithmetic helpers.

Max2(a, b) == IF a >= b THEN a ELSE b
Min2(a, b) == IF a <= b THEN a ELSE b
Abs(a) == IF a < 0 THEN -a ELSE a

RECURSIVE SeqSum(_)
SeqSum(s) == IF s = <<>> THEN 0 ELSE Head(s) + SeqSum(Tail(s))

RECURSIVE SeqMax(_)
SeqMax(s) == IF Len(s) = 1 THEN Head(s) ELSE Max2(Head(s), SeqMax(Tail(s)))

RECURSIVE SeqMin(_)
SeqMin(s) == IF Len(s) = 1 THEN Head(s) ELSE Min2(Head(s), SeqMin(Tail(s)))

\* The push that never evicts.
PushUnbounded(list, v, window) == Append(list, v)

\* list.append(v); if len(list) > window: list.pop(0)
Push(list, v, window) ==
    LET l == Append(list, v) IN IF Len(l) > window THEN Tail(l) ELSE l

\* sum(list) / len(list), rounded down to a hundredth
Mean(list) == SeqSum(list) \div Len(list)

\* the last k elements of a list (list[-k:])
LastK(list, k) ==
    IF Len(list) <= k THEN list ELSE SubSeq(list, Len(list) - k + 1, Len(list))

----------------------------------------------------------------------------
\* Geometric feature extractors.  An eye is given by the number of points
\* supplied and the three distances A, B, C the code takes norms of; the
\* mouth by its two distances.

\* eye_aspect_ratio: 0 when fewer than 6 points or C = 0, else (A+B)/(2C)
eye_aspect_ratio(eye) ==
    IF eye.n < 6 THEN 0
    ELSE IF eye.C = 0 THEN 0
    ELSE (100 * (eye.A + eye.B)) \div (2 * eye.C)

\* mouth_aspect_ratio: 0 when B = 0, else A/B
mouth_aspect_ratio(A, B) == IF B = 0 THEN 0 ELSE (100 * A) \div B

\* deviation of the nose from the midpoint of the outer eye corners
deviation(in) ==
    Abs(in.nose_x - ((in.left_eye_x + in.right_eye_x) \div 2))

\* avg_ear = (left_ear + right_ear) / 2.0
avg_ear(in) ==
    (eye_aspect_ratio(in.left_eye) + eye_aspect_ratio(in.right_eye)) \div 2

----------------------------------------------------------------------------
\* Per-signal detectors, as functions from the state they read to the state
\* they leave and what they report.

\* The block with the count left alone in the very-droopy band (the
\* increment written in one band only).
DrowsinessBlockNoCount(rev, score, cnt, ear) ==
    LET rev2 == Push(rev, ear, 10)
        s == SeqSum(rev2)
        n == Len(rev2)
        score1 == IF s < DROWSY_EAR_THRESHOLD * n THEN score + 3
                  ELSE IF s < 32 * n THEN score + 1
                  ELSE IF s > 35 * n THEN Max2(0, score - 3)
                  ELSE Max2(0, score - 1)
        cnt1 == IF s < DROWSY_EAR_THRESHOLD * n THEN cnt
                ELSE IF s < 32 * n THEN cnt + 1
                ELSE 0
        fired == (score1 > 20 /\ s < 32 * n) \/ cnt1 >= DROWSY_CONSEC_FRAMES
        score2 == IF fired THEN score1
                  ELSE IF s > 33 * n THEN Max2(0, score1 - 2)
                  ELSE score1
    IN [recent_ear_values |-> rev2,
        drowsiness_score |-> score2,
        drowsy_counter |-> cnt1,
        fired |-> fired,
        confidence |-> Min2(100, score1 * 4),
        avg_recent_ear |-> s \div n,
        sum |-> s, len |-> n]

\* The block with the score raised, not lowered, when the eyes are open.
DrowsinessBlockOpenEyesRaise(rev, score, cnt, ear) ==
    LET rev2 == Push(rev, ear, 10)
        s == SeqSum(rev2)
        n == Len(rev2)
        score1 == IF s < DROWSY_EAR_THRESHOLD * n THEN score + 3
                  ELSE IF s < 32 * n THEN score + 1
                  ELSE IF s > 35 * n THEN score + 3
                  ELSE Max2(0, score - 1)
        cnt1 == IF s < DROWSY_EAR_THRESHOLD * n THEN cnt + 1
                ELSE IF s < 32 * n THEN cnt + 1
                ELSE 0
        fired == (score1 > 20 /\ s < 32 * n) \/ cnt1 >= DROWSY_CONSEC_FRAMES
        score2 == IF fired THEN score1
                  ELSE IF s > 33 * n THEN Max2(0, score1 - 2)
                  ELSE score1
    IN [recent_ear_values |-> rev2,
        drowsiness_score |-> score2,
        drowsy_counter |-> cnt1,
        fired |-> fired,
        confidence |-> Min2(100, score1 * 4),
        avg_recent_ear |-> s \div n,
        sum |-> s, len |-> n]

\* The block with the score growing by 1 in the very-droopy band.
DrowsinessBlockSlowScore(rev, score, cnt, ear) ==
    LET rev2 == Push(rev, ear, 10)
        s == SeqSum(rev2)
        n == Len(rev2)
        score1 == IF s < DROWSY_EAR_THRESHOLD * n THEN score + 1
                  ELSE IF s < 32 * n THEN score + 1
                  ELSE IF s > 35 * n THEN Max2(0, score - 3)
                  ELSE Max2(0, score - 1)
        cnt1 == IF s < DROWSY_EAR_THRESHOLD * n THEN cnt + 1
                ELSE IF s < 32 * n THEN cnt + 1
                ELSE 0
        fired == (score1 > 20 /\ s < 32 * n) \/ cnt1 >= DROWSY_CONSEC_FRAMES
        score2 == IF fired THEN score1
                  ELSE IF s > 33 * n THEN Max2(0, score1 - 2)
                  ELSE score1
    IN [recent_ear_values |-> rev2,
        drowsiness_score |-> score2,
        drowsy_counter |-> cnt1,
        fired |-> fired,
        confidence |-> Min2(100, score1 * 4),
        avg_recent_ear |-> s \div n,
        sum |-> s, len |-> n]

\* The block with the confidence score/25 not capped at 1.
DrowsinessBlockUnclamped(rev, score, cnt, ear) ==
    LET rev2 == Push(rev, ear, 10)
        s == SeqSum(rev2)
        n == Len(rev2)
        score1 == IF s < DROWSY_EAR_THRESHOLD * n THEN score + 3
                  ELSE IF s < 32 * n THEN score + 1
                  ELSE IF s > 35 * n THEN Max2(0, score - 3)
                  ELSE Max2(0, score - 1)
        cnt1 == IF s < DROWSY_EAR_THRESHOLD * n THEN cnt + 1
                ELSE IF s < 32 * n THEN cnt + 1
                ELSE 0
        fired == (score1 > 20 /\ s < 32 * n) \/ cnt1 >= DROWSY_CONSEC_FRAMES
        score2 == IF fired THEN score1
                  ELSE IF s > 33 * n THEN Max2(0, score1 - 2)
                  ELSE score1
    IN [recent_ear_values |-> rev2,
        drowsiness_score |-> score2,
        drowsy_counter |-> cnt1,
        fired |-> fired,
        confidence |-> score1 * 4,
        avg_recent_ear |-> s \div n,
        sum |-> s, len |-> n]

\* The block without the further decrease of a frame that does not fire.
DrowsinessBlockNoDecay(rev, score, cnt, ear) ==
    LET rev2 == Push(rev, ear, 10)
        s == SeqSum(rev2)
        n == Len(rev2)
        score1 == IF s < DROWSY_EAR_THRESHOLD * n THEN score + 3
                  ELSE IF s < 32 * n THEN score + 1
                  ELSE IF s > 35 * n THEN Max2(0, score - 3)
                  ELSE Max2(0, score - 1)
        cnt1 == IF s < DROWSY_EAR_THRESHOLD * n THEN cnt + 1
                ELSE IF s < 32 * n THEN cnt + 1
                ELSE 0
        fired == (score1 > 20 /\ s < 32 * n) \/ cnt1 >= DROWSY_CONSEC_FRAMES
        score2 == IF fired THEN score1
                  ELSE IF s > 33 * n THEN score1
                  ELSE score1
    IN [recent_ear_values |-> rev2,
        drowsiness_score |-> score2,
        drowsy_counter |-> cnt1,
        fired |-> fired,
        confidence |-> Min2(100, score1 * 4),
        avg_recent_ear |-> s \div n,
        sum |-> s, len |-> n]

\* The block firing on the score alone, whatever the smoothed EAR.
DrowsinessBlockScoreOnly(rev, score, cnt, ear) ==
    LET rev2 == Push(rev, ear, 10)
        s == SeqSum(rev2)
        n == Len(rev2)
        score1 == IF s < DROWSY_EAR_THRESHOLD * n THEN score + 3
                  ELSE IF s < 32 * n THEN score + 1
                  ELSE IF s > 35 * n THEN Max2(0, score - 3)
                  ELSE Max2(0, score - 1)
        cnt1 == IF s < DROWSY_EAR_THRESHOLD * n THEN cnt + 1
                ELSE IF s < 32 * n THEN cnt + 1
                ELSE 0
        fired == score1 > 20 \/ cnt1 >= DROWSY_CONSEC_FRAMES
        score2 == IF fired THEN score1
                  ELSE IF s > 33 * n THEN Max2(0, score1 - 2)
                  ELSE score1
    IN [recent_ear_values |-> rev2,
        drowsiness_score |-> score2,
        drowsy_counter |-> cnt1,
        fired |-> fired,
        confidence |-> Min2(100, score1 * 4),
        avg_recent_ear |-> s \div n,
        sum |-> s, len |-> n]

\* Drowsiness block of generate_frames: push avg_ear on recent_ear_values,
\* band the window mean, update score and count, decide, decay.
DrowsinessBlock(rev, score, cnt, ear) ==
    LET rev2 == Push(rev, ear, 10)
        s == SeqSum(rev2)
        n == Len(rev2)
        score1 == IF s < DROWSY_EAR_THRESHOLD * n THEN score + 3
                  ELSE IF s < 32 * n THEN score + 1
                  ELSE IF s > 35 * n THEN Max2(0, score - 3)
                  ELSE Max2(0, score - 1)
        cnt1 == IF s < DROWSY_EAR_THRESHOLD * n THEN cnt + 1
                ELSE IF s < 32 * n THEN cnt + 1
                ELSE 0
        fired == (score1 > 20 /\ s < 32 * n) \/ cnt1 >= DROWSY_CONSEC_FRAMES
        score2 == IF fired THEN score1
                  ELSE IF s > 33 * n THEN Max2(0, score1 - 2)
                  ELSE score1
    IN [recent_ear_values |-> rev2,
        drowsiness_score |-> score2,
        drowsy_counter |-> cnt1,
        fired |-> fired,
        confidence |-> Min2(100, score1 * 4),
        avg_recent_ear |-> s \div n,
        sum |-> s, len |-> n]

\* detect_nodding with the counter decremented without a floor.
detect_nodding_no_floor(cps, cnt, chin_y) ==
    LET cps2 == Push(cps, chin_y, 10)
        recent == LastK(cps2, 5)
        range == SeqMax(recent) - SeqMin(recent)
        cnt2 == IF Len(cps2) >= 5
                THEN (IF range > NODDING_THRESHOLD THEN cnt + 1
                      ELSE cnt - 1)
                ELSE cnt
    IN [chin_positions |-> cps2,
        nodding_counter |-> cnt2,
        result |-> (Len(cps2) >= 5 /\ cnt2 > 5),
        wide |-> (Len(cps2) >= 5 /\ range > NODDING_THRESHOLD)]

\* detect_nodding: push chin_y, and once 5 samples are held compare the
\* range of the last 5 with NODDING_THRESHOLD.
detect_nodding(cps, cnt, chin_y) ==
    LET cps2 == Push(cps, chin_y, 10)
        recent == LastK(cps2, 5)
        range == SeqMax(recent) - SeqMin(recent)
        cnt2 == IF Len(cps2) >= 5
                THEN (IF range > NODDING_THRESHOLD THEN cnt + 1
                      ELSE Max2(0, cnt - 1))
                ELSE cnt
    IN [chin_positions |-> cps2,
        nodding_counter |-> cnt2,
        result |-> (Len(cps2) >= 5 /\ cnt2 > 5),
        wide |-> (Len(cps2) >= 5 /\ range > NODDING_THRESHOLD)]

\* smoothed_mar: push on mar_list (window 5); the mean is read from the list
smoothed_mar(ml, current_mar) == Push(ml, current_mar, 5)

\* min(1.0, max(0.0, (mar - 0.5) * 2.0)) of the smoothed MAR
GeometricProb(ml) ==
    Min2(100, Max2(0, ((2 * SeqSum(ml)) \div Len(ml)) - 100))

\* The block with the counter left as it is when yawning fires.
YawningBlockNoReset(ml, yps, ycnt, in, model) ==
    IF ~in.mouth_img
    THEN [mar_list |-> ml, yawn_probs |-> yps, yawn_counter |-> 0,
          fired |-> FALSE, confidence |-> 0, wrote_prob |-> FALSE, avg_prob |-> 0,
          over |-> FALSE, invoked |-> FALSE]
    ELSE
    LET ml2 == smoothed_mar(ml, mouth_aspect_ratio(in.mouthA, in.mouthB))
    IN  IF ~(SeqSum(ml2) > 40 * Len(ml2))
        THEN [mar_list |-> ml2, yawn_probs |-> yps, yawn_counter |-> 0,
              fired |-> FALSE, confidence |-> 0, wrote_prob |-> FALSE,
              avg_prob |-> 0, over |-> FALSE, invoked |-> FALSE]
        ELSE
        LET yawn_prob == IF model /\ in.yawn_pred >= 0 THEN in.yawn_pred
                         ELSE GeometricProb(ml2)
            yps2 == Push(yps, yawn_prob, 10)
            over == SeqSum(yps2) > YAWN_THRESHOLD * Len(yps2)
            c1 == IF over THEN ycnt + 1 ELSE 0
            fired == c1 >= YAWN_CONSEC_FRAMES
        IN [mar_list |-> ml2, yawn_probs |-> yps2,
            yawn_counter |-> c1,
            fired |-> fired, confidence |-> Mean(yps2),
            wrote_prob |-> TRUE, avg_prob |-> Mean(yps2), over |-> over,
            invoked |-> model]

\* Yawning block of generate_frames.  pred is the classifier's answer for
\* this frame: a probability, or -1 when predict() throws.
YawningBlock(ml, yps, ycnt, in, model) ==
    IF ~in.mouth_img
    THEN [mar_list |-> ml, yawn_probs |-> yps, yawn_counter |-> 0,
          fired |-> FALSE, confidence |-> 0, wrote_prob |-> FALSE, avg_prob |-> 0,
          over |-> FALSE, invoked |-> FALSE]
    ELSE
    LET ml2 == smoothed_mar(ml, mouth_aspect_ratio(in.mouthA, in.mouthB))
    IN  IF ~(SeqSum(ml2) > 40 * Len(ml2))
        THEN [mar_list |-> ml2, yawn_probs |-> yps, yawn_counter |-> 0,
              fired |-> FALSE, confidence |-> 0, wrote_prob |-> FALSE,
              avg_prob |-> 0, over |-> FALSE, invoked |-> FALSE]
        ELSE
        LET yawn_prob == IF model /\ in.yawn_pred >= 0 THEN in.yawn_pred
                         ELSE GeometricProb(ml2)
            yps2 == Push(yps, yawn_prob, 10)
            over == SeqSum(yps2) > YAWN_THRESHOLD * Len(yps2)
            c1 == IF over THEN ycnt + 1 ELSE 0
            fired == c1 >= YAWN_CONSEC_FRAMES
        IN [mar_list |-> ml2, yawn_probs |-> yps2,
            yawn_counter |-> IF fired THEN 0 ELSE c1,
            fired |-> fired, confidence |-> Mean(yps2),
            wrote_prob |-> TRUE, avg_prob |-> Mean(yps2), over |-> over,
            invoked |-> model]

\* The test with the threshold itself counted as exceeded.
AbsenceFiresAtThreshold(face_found, face_forward, t, lat) ==
    (~face_found \/ ~face_forward) /\ (t - lat >= NOT_ATTENTIVE_THRESHOLD)

\* The test that looks at the orientation only.
AbsenceFiresForwardOnly(face_found, face_forward, t, lat) ==
    ~face_forward /\ (t - lat > NOT_ATTENTIVE_THRESHOLD)

\* Presence: face missing or not forward, and more than the threshold since
\* last_attentive_time.
AbsenceFires(face_found, face_forward, t, lat) ==
    (~face_found \/ ~face_forward) /\ (t - lat > NOT_ATTENTIVE_THRESHOLD)

----------------------------------------------------------------------------
\* State arbiter: status and confidence start as focused/0 and each block
\* that fires overwrites them, in the order drowsiness, nodding, yawning,
\* absence, so the last block that fired decides.
ArbitrateDrowsyFirst(dF, dConf, nF, yF, yConf, aF) ==
    IF aF THEN [status |-> "not_present", confidence |-> 100]
    ELSE IF nF THEN [status |-> "drowsy", confidence |-> 100]
    ELSE IF dF THEN [status |-> "drowsy", confidence |-> dConf]
    ELSE IF yF THEN [status |-> "yawning", confidence |-> yConf]
    ELSE [status |-> "focused", confidence |-> 0]

ArbitrateAbsenceLast(dF, dConf, nF, yF, yConf, aF) ==
    IF yF THEN [status |-> "yawning", confidence |-> yConf]
    ELSE IF nF THEN [status |-> "drowsy", confidence |-> 100]
    ELSE IF dF THEN [status |-> "drowsy", confidence |-> dConf]
    ELSE IF aF THEN [status |-> "not_present", confidence |-> 100]
    ELSE [status |-> "focused", confidence |-> 0]

Arbitrate(dF, dConf, nF, yF, yConf, aF) ==
    LET s0 == [status |-> "focused", confidence |-> 0]
        s1 == IF dF THEN [status |-> "drowsy", confidence |-> dConf] ELSE s0
        s2 == IF nF THEN [status |-> "drowsy", confidence |-> 100] ELSE s1
        s3 == IF yF THEN [status |-> "yawning", confidence |-> yConf] ELSE s2
        s4 == IF aF THEN [status |-> "not_present", confidence |-> 100] ELSE s3
    IN s4

----------------------------------------------------------------------------
\* Session statistics aggregator.

\* the states the frame loop publishes
States == {"focused", "drowsy", "yawning", "not_present"}

InitStats(t) ==
    [yawn_count |-> 0, drowsy_count |-> 0, distraction_count |-> 0,
     not_present_count |-> 0, focused_time |-> 0, distracted_time |-> 0,
     drowsy_time |-> 0, not_present_time |-> 0,
     last_state |-> "focused", state_start_time |-> t]

\* The bucket update with a bucket of its own for not_present.
AddTimeInStateOwnBucket(ss, t) ==
    LET time_in_state == t - ss.state_start_time
    IN  IF ss.last_state = "focused"
        THEN [ss EXCEPT !.focused_time = @ + time_in_state]
        ELSE IF ss.last_state = "not_present"
        THEN [ss EXCEPT !.not_present_time = @ + time_in_state]
        ELSE IF ss.last_state \in {"drowsy", "yawning"}
        THEN [ss EXCEPT !.drowsy_time = @ + time_in_state]
        ELSE ss

\* the bucket update shared by update_session_stats and end_session
AddTimeInState(ss, t) ==
    LET time_in_state == t - ss.state_start_time
    IN  IF ss.last_state = "focused"
        THEN [ss EXCEPT !.focused_time = @ + time_in_state]
        ELSE IF ss.last_state \in {"not_present", "distracted"}
        THEN [ss EXCEPT !.distracted_time = @ + time_in_state]
        ELSE IF ss.last_state = "drowsy"
        THEN [ss EXCEPT !.drowsy_time = @ + time_in_state]
        ELSE IF ss.last_state = "yawning"
        THEN [ss EXCEPT !.drowsy_time = @ + time_in_state]
        ELSE ss

\* The aggregator crediting the interval to the state it enters.
update_session_stats_credit_new(ss, new_status, t) ==
    LET a == AddTimeInState([ss EXCEPT !.last_state = new_status], t)
        b == IF new_status # ss.last_state
             THEN (IF new_status = "yawning"
                   THEN [a EXCEPT !.yawn_count = @ + 1]
                   ELSE IF new_status = "drowsy"
                   THEN [a EXCEPT !.drowsy_count = @ + 1]
                   ELSE IF new_status = "not_present"
                   THEN [a EXCEPT !.distraction_count = @ + 1]
                   ELSE a)
             ELSE a
    IN [b EXCEPT !.last_state = new_status, !.state_start_time = t]

\* The aggregator counting every frame spent in a state.
update_session_stats_level(ss, new_status, t) ==
    LET a == AddTimeInState(ss, t)
        b == IF TRUE
             THEN (IF new_status = "yawning"
                   THEN [a EXCEPT !.yawn_count = @ + 1]
                   ELSE IF new_status = "drowsy"
                   THEN [a EXCEPT !.drowsy_count = @ + 1]
                   ELSE IF new_status = "not_present"
                   THEN [a EXCEPT !.distraction_count = @ + 1]
                   ELSE a)
             ELSE a
    IN [b EXCEPT !.last_state = new_status, !.state_start_time = t]

\* update_session_stats: credit the time since the last call to the bucket
\* of last_state, count an entry into a new state, move on.
update_session_stats(ss, new_status, t) ==
    LET a == AddTimeInState(ss, t)
        b == IF new_status # ss.last_state
             THEN (IF new_status = "yawning"
                   THEN [a EXCEPT !.yawn_count = @ + 1]
                   ELSE IF new_status = "drowsy"
                   THEN [a EXCEPT !.drowsy_count = @ + 1]
                   ELSE IF new_status = "not_present"
                   THEN [a EXCEPT !.distraction_count = @ + 1]
                   ELSE a)
             ELSE a
    IN [b EXCEPT !.last_state = new_status, !.state_start_time = t]

\* the analytics response: the counts and times of final_stats and the
\* total the percentages are taken of
NoReport ==
    [yawn_count |-> 0, drowsy_count |-> 0, distraction_count |-> 0,
     focused_time |-> 0, distracted_time |-> 0, drowsy_time |-> 0,
     total_time |-> 0]

AnalyticsData(stats) ==
    LET total == stats.focused_time + stats.distracted_time + stats.drowsy_time
    IN [yawn_count |-> stats.yawn_count, drowsy_count |-> stats.drowsy_count,
        distraction_count |-> stats.distraction_count,
        focused_time |-> stats.focused_time,
        distracted_time |-> stats.distracted_time,
        drowsy_time |-> stats.drowsy_time,
        total_time |-> IF total = 0 THEN 1 ELSE total]

----------------------------------------------------------------------------
\* Frame inputs: what cap.read() and face_mesh.process() hand to one pass.

EyeOf(ear) == [n |-> 6, A |-> ear, B |-> 0, C |-> 50]
DegenerateEye == [n |-> 6, A |-> 0, B |-> 0, C |-> 0]

\* a frame with a face: nose offset dev from the eye midpoint, both eyes
\* with aspect ratio ear, chin at chin_y, mouth with aspect ratio mar
Face(dev, ear, chin_y, mar, pred) ==
    [face |-> TRUE, nose_x |-> 300 + dev, left_eye_x |-> 250,
     right_eye_x |-> 350, left_eye |-> EyeOf(ear), right_eye |-> EyeOf(ear),
     chin_y |-> chin_y, mouthA |-> mar, mouthB |-> 100, mouth_img |-> TRUE,
     yawn_pred |-> pred, throws |-> "none"]

\* a frame whose landmarks make the named step raise an exception at its
\* first access to them: "orientation", "drowsiness", "nodding", "yawning"
Malformed(in, step) == [in EXCEPT !.throws = step]

\* a frame with a face whose eye landmarks collapse to one point
FaceDegenerateEyes(dev, chin_y, mar, pred) ==
    [Face(dev, 0, chin_y, mar, pred) EXCEPT
        !.left_eye = DegenerateEye, !.right_eye = DegenerateEye]

\* a frame with a face whose mouth corner landmarks coincide (B = 0)
FaceDegenerateMouth(dev, ear, chin_y, pred) ==
    [Face(dev, ear, chin_y, 0, pred) EXCEPT !.mouthA = 30, !.mouthB = 0]

\* a frame in which no face is detected (the landmark fields are not read)
NoFace == [Face(0, 0, 0, 0, 0) EXCEPT !.face = FALSE]

----------------------------------------------------------------------------
\* One pass of the frame loop of generate_frames, at wall-clock time t.

\* The blocks run on every frame.
DetectorsRunAlways(in) == TRUE

\* `if results.multi_face_landmarks:` the drowsiness, nodding and yawning
\* blocks run only on a frame with a face
DetectorsRun(in) == in.face

\* try: drowsiness block / except: log.  A block that raises at its first
\* statement has written nothing.
DrowsinessTry(rev, score, cnt, in) ==
    IF in.throws = "drowsiness"
    THEN [recent_ear_values |-> rev, drowsiness_score |-> score,
          drowsy_counter |-> cnt, fired |-> FALSE, confidence |-> 0,
          avg_recent_ear |-> 0, sum |-> 0, len |-> 0]
    ELSE DrowsinessBlock(rev, score, cnt, avg_ear(in))

\* try: detect_nodding / except: log (detect_nodding has its own handler
\* and returns False)
NoddingTry(cps, cnt, in) ==
    IF in.throws = "nodding"
    THEN [chin_positions |-> cps, nodding_counter |-> cnt, result |-> FALSE,
          wide |-> FALSE]
    ELSE detect_nodding(cps, cnt, in.chin_y)

\* try: yawning block / except: log
YawningTry(ml, yps, ycnt, in, model) ==
    IF in.throws = "yawning"
    THEN [mar_list |-> ml, yawn_probs |-> yps, yawn_counter |-> ycnt,
          fired |-> FALSE, confidence |-> 0, wrote_prob |-> FALSE,
          avg_prob |-> 0, over |-> FALSE, invoked |-> FALSE]
    ELSE YawningBlock(ml, yps, ycnt, in, model)

\* the state of the three detectors
DetectorState ==
    <<drowsiness_score, drowsy_counter, yawn_counter, nodding_counter,
      recent_ear_values, mar_list, yawn_probs, chin_positions>>

\* A pass whose orientation check raises: lines 448-466 are outside every
\* try, so the exception leaves generate_frames and the generator ends.
\* Nothing has been written, nothing is published.
FrameRaises(t) ==
    /\ now' = t
    /\ streaming' = FALSE
    /\ obs' = [obs EXCEPT !.face = TRUE, !.drowsy = FALSE, !.nod = FALSE,
                          !.yawn = FALSE, !.absent = FALSE,
                          !.threw = "orientation"]
    /\ frames' = frames + 1
    /\ last_op' = "frame"
    /\ changedSince' = TRUE
    /\ UNCHANGED <<detVars, alertVars, session_stats, current_status,
                   yawn_model, scn, monitor, ended, httpVars, runs, session_t0,
                   requests, prev_final, has_prev, concVars>>

Frame(in, t) ==
    IF in.face /\ in.throws = "orientation" THEN FrameRaises(t) ELSE
    \E d \in {DrowsinessTry(recent_ear_values, drowsiness_score,
                              drowsy_counter, in)},
       n \in {NoddingTry(chin_positions, nodding_counter, in)},
       y \in {YawningTry(mar_list, yawn_probs, yawn_counter, in, yawn_model)} :
    LET face_found == in.face
        face_forward == IF in.face THEN ~(deviation(in) > 25) ELSE TRUE
        lat == IF face_found /\ face_forward THEN t ELSE last_attentive_time
        ear == avg_ear(in)
        dF == face_found /\ d.fired
        nF == face_found /\ n.result
        yF == face_found /\ y.fired
        aF == AbsenceFires(face_found, face_forward, t, lat)
        arb == Arbitrate(dF, d.confidence, nF, yF, y.confidence, aF)
        alert == aF /\ (t - last_distraction_alert >= DISTRACTION_ALERT_INTERVAL)
        score == IF face_found THEN d.drowsiness_score ELSE drowsiness_score
        lowSm == face_found /\ d.sum < DROWSY_EAR_THRESHOLD * d.len
        lowRaw == face_found /\ ear < DROWSY_EAR_THRESHOLD
        degEar == face_found /\ (in.left_eye.n < 6 \/ in.left_eye.C = 0)
                             /\ (in.right_eye.n < 6 \/ in.right_eye.C = 0)
        zeroMar == face_found /\ in.mouth_img /\ in.mouthB = 0
        alt == /\ runs.alt = frames
               /\ face_found /\ ear \in {20, 40}
               /\ (frames > 0 => ear # obs.ear)
    IN
    /\ now' = t
    /\ last_attentive_time' = lat
    \* the three detectors run only when a face was found
    /\ IF DetectorsRun(in)
       THEN /\ recent_ear_values' = d.recent_ear_values
            /\ drowsiness_score' = d.drowsiness_score
            /\ drowsy_counter' = d.drowsy_counter
            \* generate_frames assigns nodding_counter = 0 after a nod, but
            \* the name is not declared global there: the assignment makes
            \* a local and the module-level counter keeps its value
            /\ chin_positions' = n.chin_positions
            /\ nodding_counter' = n.nodding_counter
            /\ mar_list' = y.mar_list
            /\ yawn_probs' = y.yawn_probs
            /\ yawn_counter' = y.yawn_counter
       ELSE UNCHANGED detVarsNoLat
    /\ IF alert
       THEN /\ distraction_alert_count' = distraction_alert_count + 1
            /\ last_distraction_alert' = t
       ELSE UNCHANGED alertVars
    /\ session_stats' = update_session_stats(session_stats, arb.status, t)
    /\ current_status' =
          [status |-> arb.status, confidence |-> arb.confidence,
           face_found |-> face_found, face_forward |-> face_forward,
           ear_value |-> IF face_found /\ in.throws # "drowsiness" THEN ear
                         ELSE current_status.ear_value,
           yawn_prob |-> IF face_found /\ y.wrote_prob THEN y.avg_prob
                         ELSE current_status.yawn_prob,
           drowsiness_score |-> score,
           timestamp |-> t]
    /\ obs' = [face |-> face_found, forward |-> face_forward,
               drowsy |-> dF, nod |-> nF, yawn |-> yF, absent |-> aF,
               status |-> arb.status, confidence |-> arb.confidence,
               dconf |-> d.confidence, yconf |-> y.confidence,
               ear |-> ear, threw |-> IF face_found THEN in.throws ELSE "none"]
    /\ frames' = frames + 1
    /\ runs' = [smLow |-> IF lowSm THEN runs.smLow + 1 ELSE 0,
                smCount |-> lowSm /\ d.drowsy_counter >= DROWSY_CONSEC_FRAMES,
                rawLow |-> IF lowRaw THEN runs.rawLow + 1 ELSE 0,
                rawFired |-> lowRaw /\ (dF \/ (runs.rawLow > 0 /\ runs.rawFired)),
                earZero |-> IF degEar THEN runs.earZero + 1 ELSE 0,
                marZero |-> IF zeroMar THEN runs.marZero + 1 ELSE 0,
                alt |-> IF alt THEN runs.alt + 1 ELSE runs.alt,
                fwdAt |-> IF face_found /\ face_forward THEN t ELSE runs.fwdAt,
                hi |-> IF face_found /\ ear > 35 /\ runs.hi = frames
                       THEN runs.hi + 1 ELSE runs.hi,
                scoreUp |-> runs.scoreUp \/ score > drowsiness_score,
                e18 |-> IF face_found /\ ear = 18 /\ runs.e18 = frames
                        THEN runs.e18 + 1 ELSE runs.e18,
                nodWide |-> IF ~face_found THEN runs.nodWide
                            ELSE IF n.wide THEN runs.nodWide + 1 ELSE 0,
                prevStatus |-> obs.status,
                prevCounts |-> <<session_stats.yawn_count,
                                 session_stats.drowsy_count,
                                 session_stats.distraction_count>>,
                prevDet |-> DetectorState,
                prevNod |-> obs.nod,
                mar |-> mouth_aspect_ratio(in.mouthA, in.mouthB),
                chin |-> in.chin_y,
                prevTimes |-> <<session_stats.focused_time,
                                session_stats.distracted_time,
                                session_stats.drowsy_time>>,
                prevNow |-> now,
                spent |-> [runs.spent EXCEPT ![obs.status] = @ + (t - now)],
                entered |-> IF arb.status # obs.status
                            THEN [runs.entered EXCEPT ![arb.status] = @ + 1]
                            ELSE runs.entered,
                sum |-> IF face_found THEN d.sum ELSE 0,
                len |-> IF face_found THEN d.len ELSE 0,
                invoked |-> face_found /\ y.invoked,
                threw |-> runs.threw
                          \/ (face_found /\ y.invoked /\ in.yawn_pred < 0),
                threwBefore |-> runs.threw,
                yq |-> IF ~face_found \/ in.throws = "yawning" THEN runs.yq
                       ELSE IF y.over THEN runs.yq + 1 ELSE 0,
                pubTwice |-> arb.status = "yawning" /\ obs.status = "yawning"]
    /\ last_op' = "frame"
    /\ changedSince' = TRUE
    /\ UNCHANGED <<yawn_model, scn, monitor, streaming, ended, httpVars, session_t0, requests,
                   prev_final, has_prev, concVars>>

----------------------------------------------------------------------------
\* Stream threads and the status reader.

Threads == 1..NStreams

\* the keys of current_status in the order a loop over items() meets them:
\* the six of the module-level dict, then those update() adds
StatusKeys == <<"status", "confidence", "face_found", "ear_value",
                "yawn_prob", "timestamp", "face_forward", "drowsiness_score">>

\* the keys every pass writes, in its one call of current_status.update()
UpdateKeys == {"status", "confidence", "face_found", "timestamp",
               "face_forward", "drowsiness_score"}

\* current_status as the module sets it at import (the keys update() adds
\* later are held with a default)
EmptyStatus ==
    [status |-> "focused", confidence |-> 0, face_found |-> FALSE,
     face_forward |-> FALSE, ear_value |-> 0, yawn_prob |-> 0,
     drowsiness_score |-> 0, timestamp |-> 0]

\* the locals of a pass before it has read a frame
NoLocals == [in |-> NoFace, id |-> 0, face_found |-> FALSE,
             face_forward |-> TRUE, status |-> "focused", confidence |-> 0]

----------------------------------------------------------------------------
\* Initial state: the module-level assignments of app.py at import time 0.

\* The standalone monitor's alert kinds and initial state.
AlertKinds == {"drowsy", "nodding", "yawn", "absence"}

\* time.time() when the loop starts: later than the cooldown after the
\* initial last_alert_time of 0
MonitorStart == ALERT_COOLDOWN + 1

\* no sound yet
NoSound == 0

InitMonitor ==
    [now |-> MonitorStart, last_alert_time |-> 0,
     pc |-> [k \in AlertKinds |-> "idle"],
     last_sound |-> NoSound, prev_sound |-> NoSound]

InitBase ==
    /\ yawn_counter = 0
    /\ last_attentive_time = 0
    /\ yawn_probs = <<>>
    /\ drowsy_counter = 0
    /\ drowsiness_score = 0
    /\ recent_ear_values = <<>>
    /\ chin_positions = <<>>
    /\ nodding_counter = 0
    /\ mar_list = <<>>
    /\ last_distraction_alert = 0
    /\ distraction_alert_count = 0
    /\ session_stats = InitStats(0)
    /\ current_status = EmptyStatus
    /\ now = 0
    /\ streaming = TRUE
    /\ obs = [face |-> FALSE, forward |-> TRUE, drowsy |-> FALSE,
              nod |-> FALSE, yawn |-> FALSE, absent |-> FALSE,
              status |-> "focused", confidence |-> 0, dconf |-> 0,
              yconf |-> 0, ear |-> 0, threw |-> "none"]
    /\ frames = 0
    /\ runs = [smLow |-> 0, smCount |-> FALSE, rawLow |-> 0, rawFired |-> FALSE, earZero |-> 0,
               marZero |-> 0, alt |-> 0, fwdAt |-> -1,
               yq |-> 0, pubTwice |-> FALSE, hi |-> 0, scoreUp |-> FALSE,
               e18 |-> 0, nodWide |-> 0, prevStatus |-> "focused",
               prevCounts |-> <<0, 0, 0>>,
               prevDet |-> <<0, 0, 0, 0, <<>>, <<>>, <<>>, <<>> >>,
               invoked |-> FALSE, threw |-> FALSE, threwBefore |-> FALSE,
               sum |-> 0, len |-> 0, prevNod |-> FALSE, mar |-> 0, chin |-> 0,
               prevTimes |-> <<0, 0, 0>>, prevNow |-> 0,
               spent |-> [st \in States |-> 0],
               entered |-> [st \in States |-> 0]]
    /\ session_username = FALSE
    /\ has_final = FALSE
    /\ final_stats = InitStats(0)
    /\ report = NoReport
    /\ frameDue = FALSE
    /\ last_op = "init"
    /\ session_t0 = 0
    /\ requests = 0
    /\ prev_final = InitStats(0)
    /\ has_prev = FALSE
    /\ changedSince = FALSE
    /\ ended = FALSE
    /\ monitor = InitMonitor
    /\ pc = [th \in Threads |-> "off"]
    /\ loc = [th \in Threads |-> NoLocals]
    /\ passes = 0
    /\ cs_pass = 0
    /\ ear_by = 0
    /\ rpc = 0
    /\ safe_status = EmptyStatus
    /\ snap_by = [k \in 1..Len(StatusKeys) |-> 0]

----------------------------------------------------------------------------
\* Detector runs: the frame loop alone, one frame per tick.  A run starts
\* with a scripted sequence of frames (possibly empty) and goes on with
\* frames drawn freely from an alphabet.

\* the frames of a run, whether a classifier was loaded, and the number of
\* frames explored
Run(script, inputs, model, maxFrames) ==
    [script |-> script, inputs |-> inputs, model |-> model,
     maxFrames |-> maxFrames]

Alphabet(inputs, model, maxFrames) == Run(<<>>, inputs, model, maxFrames)

Repeat(in, k) == [i \in 1..k |-> in]

\* k frames whose chin moves down and up by 20 px
Nodding(k, ear, mar, pred) ==
    [i \in 1..k |-> Face(0, ear, 400 + 20 * (i % 2), mar, pred)]

EarAlphabets ==
    { Alphabet({Face(0, 20, 400, 0, 0), Face(0, 40, 400, 0, 0)}, FALSE, MaxFrames),
      Alphabet({Face(0, 26, 400, 0, 0), Face(0, 40, 400, 0, 0)}, FALSE, MaxFrames),
      Alphabet({FaceDegenerateEyes(0, 400, 0, 0), Face(0, 40, 400, 0, 0)},
               FALSE, MaxFrames),
      Alphabet({FaceDegenerateMouth(0, 40, 400, 0), Face(0, 40, 400, 100, 0)},
               FALSE, MaxFrames),
      Alphabet({Face(0, 36, 400, 0, 0), Face(0, 50, 400, 0, 0)}, FALSE, MaxFrames),
      Run(Repeat(Face(0, 18, 400, 0, 0), 10), {Face(0, 18, 400, 0, 0)},
          FALSE, MaxFrames) }

FrameStep ==
    /\ streaming
    /\ frames < scn.maxFrames
    /\ \E in \in (IF frames < Len(scn.script)
                   THEN {scn.script[frames + 1]}
                   ELSE scn.inputs) : Frame(in, now + 1)
    /\ UNCHANGED frameDue

InitEar == InitBase /\ scn \in EarAlphabets /\ yawn_model = scn.model

NextDet == FrameStep

SpecEar == InitEar /\ [][NextDet]_vars

\* Arbitration runs: a wide-open mouth on the scripted frames, so that
\* yawning is due on frame 17, then frames that make the other detectors
\* fire or not.
ArbRuns ==
    { Run(Repeat(Face(0, 20, 400, 100, 0), 12),
          {Face(0, 20, 400, 100, 0), Face(0, 40, 400, 100, 0),
           Face(30, 20, 400, 100, 0), Face(0, 20, 400, 0, 0), NoFace},
          FALSE, MaxArbFrames),
      Run(Repeat(Face(0, 40, 400, 100, 0), 7),
          {Face(0, 20, 400, 100, 0), Face(0, 40, 400, 100, 0),
           Face(30, 40, 400, 100, 0)},
          FALSE, MaxArbFrames),
      Run(Nodding(9, 40, 100, 95),
          {Face(0, 40, 400, 100, 95), Face(0, 40, 420, 100, 95),
           Face(30, 40, 420, 100, 95)},
          TRUE, MaxArbFrames),
      Run(Repeat(Face(0, 40, 400, 0, 0), 5),
          {Face(0, 40, 400, 0, 0), Face(0, 40, 420, 0, 0)},
          FALSE, MaxFrames),
      Alphabet({NoFace, Face(0, 20, 400, 0, 0)}, FALSE, MaxFrames) }

InitArb == InitBase /\ scn \in ArbRuns /\ yawn_model = scn.model

SpecArb == InitArb /\ [][NextDet]_vars

\* Yawning runs, with a classifier loaded: 16 qualifying frames (mouth wide
\* open, classifier answer 0.95), then qualifying frames or frames with the
\* mouth closed, long enough for a second episode; and 13 qualifying
\* frames, then qualifying frames with the head forward or turned, or
\* frames without a face.
YawnRuns ==
    { Run(Repeat(Face(0, 40, 400, 100, 95), 16),
          {Face(0, 40, 400, 100, 95), Face(0, 40, 400, 0, 0)},
          TRUE, MaxYawnFrames),
      Run(Repeat(Face(0, 40, 400, 100, 95), 13),
          {Face(0, 40, 400, 100, 95), Face(30, 40, 400, 100, 95), NoFace},
          TRUE, MaxArbFrames) }

InitYawn == InitBase /\ scn \in YawnRuns /\ yawn_model = scn.model

SpecYawn == InitYawn /\ [][NextDet]_vars

\* Runs with failures: 7 frames of low EAR and open mouth, then frames of
\* the same kind, well-formed or making one of the steps raise, or frames
\* without a face; runs with a classifier that answers 0.95 or throws; and
\* runs without a classifier.
ErrRuns ==
    { Run(Repeat(Face(0, 20, 400, 100, 0), 7),
          {Face(0, 20, 400, 100, 0), NoFace}
            \cup {Malformed(Face(0, 20, 400, 100, 0), step) :
                     step \in {"orientation", "drowsiness", "nodding",
                               "yawning"}},
          FALSE, MaxErrFrames),
      Alphabet({Face(0, 40, 400, 100, -1), Face(0, 40, 400, 100, 95)},
               TRUE, MaxErrFrames),
      Alphabet({Face(0, 40, 400, 100, 0), Face(0, 40, 400, 0, 0)},
               FALSE, MaxErrFrames) }

InitErr == InitBase /\ scn \in ErrRuns /\ yawn_model = scn.model

SpecErr == InitErr /\ [][NextDet]_vars

----------------------------------------------------------------------------
\* Session runs: the frame loop paced by the camera, one frame per tick, and
\* the HTTP handlers of the one client arriving between frames.

\* a second passes; the camera has the next frame ready
Tick ==
    /\ ~frameDue
    /\ now < MaxTime
    /\ now' = now + 1
    /\ frameDue' = TRUE
    /\ last_op' = "tick"
    /\ changedSince' = TRUE
    /\ UNCHANGED <<detVars, alertVars, session_stats, current_status,
                   yawn_model, scn, monitor, streaming, ended, httpVars, ghostVars, session_t0, requests,
                   prev_final, has_prev, concVars>>

\* the frame loop takes the frame that is due
TimedFrame ==
    /\ streaming
    /\ frameDue
    /\ frameDue' = FALSE
    /\ \E in \in scn.inputs : Frame(in, now)

\* POST /start_session: the statistics are reset before the form is
\* validated; a valid form stores the username in the session
start_session(valid) ==
    /\ requests < MaxRequests
    /\ requests' = requests + 1
    /\ session_stats' = InitStats(now)
    /\ session_username' = (valid \/ session_username)
    /\ session_t0' = now
    /\ changedSince' = TRUE
    /\ last_op' = "start_session"
    /\ ended' = FALSE
    /\ UNCHANGED <<detVars, alertVars, current_status, yawn_model, now, scn, monitor,
                   streaming,
                   has_final, final_stats, report, frameDue, ghostVars,
                   prev_final, has_prev, concVars>>

\* GET /end_session: without a username in the session a redirect; else the
\* open interval is added to the bucket of last_state and the statistics
\* are copied into the session
end_session ==
    /\ requests < MaxRequests
    /\ requests' = requests + 1
    /\ last_op' = "end_session"
    /\ IF ~session_username
       THEN UNCHANGED <<session_stats, has_final, final_stats, prev_final,
                        has_prev, changedSince, ended>>
       ELSE /\ session_stats' = AddTimeInState(session_stats, now)
            /\ final_stats' = session_stats'
            /\ has_final' = TRUE
            /\ prev_final' = final_stats
            /\ has_prev' = (has_final /\ ~changedSince)
            /\ changedSince' = FALSE
            /\ ended' = TRUE
    /\ UNCHANGED <<detVars, alertVars, current_status, yawn_model, now, scn, monitor,
                   streaming,
                   session_username, report, frameDue, ghostVars, session_t0,
                   concVars>>

\* GET /analytics: reads final_stats from the session
analytics ==
    /\ requests < MaxRequests
    /\ requests' = requests + 1
    /\ last_op' = "analytics"
    /\ report' = IF has_final THEN AnalyticsData(final_stats) ELSE report
    /\ UNCHANGED <<detVars, alertVars, session_stats, current_status,
                   yawn_model, now, scn, monitor, streaming, ended, session_username, has_final,
                   final_stats, frameDue, ghostVars, session_t0, prev_final,
                   has_prev, changedSince, concVars>>

\* GET /finish_analytics: session.clear()
finish_analytics ==
    /\ requests < MaxRequests
    /\ requests' = requests + 1
    /\ last_op' = "finish_analytics"
    /\ session_username' = FALSE
    /\ has_final' = FALSE
    /\ has_prev' = FALSE
    /\ UNCHANGED <<detVars, alertVars, session_stats, current_status,
                   yawn_model, now, scn, monitor, streaming, ended, final_stats, report, frameDue,
                   ghostVars, session_t0, prev_final, changedSince, concVars>>

SessionAlphabets ==
    { Alphabet({Face(0, 40, 400, 0, 0), NoFace}, FALSE, MaxTime),
      Alphabet({Face(0, 20, 400, 0, 0)}, FALSE, MaxTime) }

InitSession == InitBase /\ scn \in SessionAlphabets /\ yawn_model = scn.model

NextSession ==
    \/ Tick
    \/ TimedFrame
    \/ \E valid \in BOOLEAN : start_session(valid)
    \/ end_session
    \/ analytics
    \/ finish_analytics

SpecSession == InitSession /\ [][NextSession]_vars

----------------------------------------------------------------------------
\* Concurrent runs: the server is threaded, every /video_feed request runs
\* its own generate_frames() loop over the module-level state, and /status
\* is served by another thread.  A pass is split where another thread can
\* run between two of its blocks; no lock is taken anywhere.

seqVars == <<httpVars, frameDue, ghostVars, histVars, yawn_model, scn, monitor,
            streaming, ended, now>>

\* GET /video_feed: a new generator, its camera handle opened
video_feed(th) ==
    /\ pc[th] = "off"
    /\ pc' = [pc EXCEPT ![th] = "read"]
    /\ UNCHANGED <<detVars, alertVars, session_stats, current_status, seqVars,
                   loc, passes, cs_pass, ear_by, rpc, safe_status, snap_by>>

\* cap.read() fails (the device is busy or gone): the loop breaks
ReadFail(th) ==
    /\ pc[th] = "read"
    /\ pc' = [pc EXCEPT ![th] = "off"]
    /\ UNCHANGED <<detVars, alertVars, session_stats, current_status, seqVars,
                   loc, passes, cs_pass, ear_by, rpc, safe_status, snap_by>>

\* cap.read() and face_mesh.process(): the locals of the pass are set and,
\* with a face, the orientation check runs
ReadFrame(th) ==
    /\ pc[th] = "read"
    /\ passes < MaxPasses
    /\ \E in \in scn.inputs :
         LET face_forward == IF in.face THEN ~(deviation(in) > 25) ELSE TRUE
         IN /\ loc' = [loc EXCEPT ![th] =
                         [in |-> in, id |-> passes + 1, face_found |-> in.face,
                          face_forward |-> face_forward, status |-> "focused",
                          confidence |-> 0]]
            /\ last_attentive_time' =
                  IF in.face /\ face_forward THEN now ELSE last_attentive_time
            /\ pc' = [pc EXCEPT ![th] = IF in.face THEN "drowsy" ELSE "absence"]
    /\ passes' = passes + 1
    /\ UNCHANGED <<detVarsNoLat, alertVars, session_stats, current_status,
                   seqVars, cs_pass, ear_by, rpc, safe_status, snap_by>>

\* the drowsiness block, with its write of current_status['ear_value']
DrowsyStep(th) ==
    /\ pc[th] = "drowsy"
    /\ \E d \in {DrowsinessBlock(recent_ear_values, drowsiness_score,
                                  drowsy_counter, avg_ear(loc[th].in))} :
         /\ recent_ear_values' = d.recent_ear_values
         /\ drowsiness_score' = d.drowsiness_score
         /\ drowsy_counter' = d.drowsy_counter
         /\ loc' = [loc EXCEPT ![th].status = IF d.fired THEN "drowsy" ELSE @,
                               ![th].confidence = IF d.fired THEN d.confidence ELSE @]
    /\ current_status' = [current_status EXCEPT !.ear_value = avg_ear(loc[th].in)]
    /\ ear_by' = loc[th].id
    /\ pc' = [pc EXCEPT ![th] = "nod"]
    /\ UNCHANGED <<yawn_counter, last_attentive_time, yawn_probs,
                   chin_positions, nodding_counter, mar_list, alertVars,
                   session_stats, seqVars, passes, cs_pass, rpc, safe_status,
                   snap_by>>

\* the nodding block
NodStep(th) ==
    /\ pc[th] = "nod"
    /\ \E n \in {detect_nodding(chin_positions, nodding_counter,
                                 loc[th].in.chin_y)} :
         /\ chin_positions' = n.chin_positions
         /\ nodding_counter' = n.nodding_counter
         /\ loc' = [loc EXCEPT ![th].status = IF n.result THEN "drowsy" ELSE @,
                               ![th].confidence = IF n.result THEN 100 ELSE @]
    /\ pc' = [pc EXCEPT ![th] = "yawn"]
    /\ UNCHANGED <<yawn_counter, last_attentive_time, yawn_probs,
                   drowsy_counter, drowsiness_score, recent_ear_values,
                   mar_list, alertVars, session_stats, current_status, seqVars,
                   passes, cs_pass, ear_by, rpc, safe_status, snap_by>>

\* the yawning block, with its write of current_status['yawn_prob']
YawnStep(th) ==
    /\ pc[th] = "yawn"
    /\ \E y \in {YawningBlock(mar_list, yawn_probs, yawn_counter, loc[th].in,
                               yawn_model)} :
         /\ mar_list' = y.mar_list
         /\ yawn_probs' = y.yawn_probs
         /\ yawn_counter' = y.yawn_counter
         /\ loc' = [loc EXCEPT ![th].status = IF y.fired THEN "yawning" ELSE @,
                               ![th].confidence = IF y.fired THEN y.confidence ELSE @]
         /\ current_status' =
               IF y.wrote_prob
               THEN [current_status EXCEPT !.yawn_prob = y.avg_prob]
               ELSE current_status
    /\ pc' = [pc EXCEPT ![th] = "absence"]
    /\ UNCHANGED <<last_attentive_time, drowsy_counter, drowsiness_score,
                   recent_ear_values, chin_positions, nodding_counter,
                   alertVars, session_stats, seqVars, passes, cs_pass, ear_by,
                   rpc, safe_status, snap_by>>

\* the absence check and update_session_stats(status)
AbsenceStep(th) ==
    /\ pc[th] = "absence"
    /\ LET aF == AbsenceFires(loc[th].face_found, loc[th].face_forward, now,
                              last_attentive_time)
           status == IF aF THEN "not_present" ELSE loc[th].status
           alert == aF /\ (now - last_distraction_alert
                             >= DISTRACTION_ALERT_INTERVAL)
       IN /\ loc' = [loc EXCEPT ![th].status = status,
                                ![th].confidence = IF aF THEN 100 ELSE @]
          /\ IF alert
             THEN /\ distraction_alert_count' = distraction_alert_count + 1
                  /\ last_distraction_alert' = now
             ELSE UNCHANGED alertVars
          /\ session_stats' = update_session_stats(session_stats, status, now)
    /\ pc' = [pc EXCEPT ![th] = "publish"]
    /\ UNCHANGED <<detVars, current_status, seqVars, passes, cs_pass, ear_by,
                   rpc, safe_status, snap_by>>

\* current_status.update({...}): one call, all its keys at once
PublishStep(th) ==
    /\ pc[th] = "publish"
    /\ current_status' =
          [current_status EXCEPT
             !.status = loc[th].status, !.confidence = loc[th].confidence,
             !.face_found = loc[th].face_found,
             !.face_forward = loc[th].face_forward,
             !.drowsiness_score = drowsiness_score, !.timestamp = now]
    /\ cs_pass' = loc[th].id
    /\ pc' = [pc EXCEPT ![th] = "yield"]
    /\ UNCHANGED <<detVars, alertVars, session_stats, seqVars, loc, passes,
                   ear_by, rpc, safe_status, snap_by>>

\* the encoded frame is handed to the client and the loop goes on
YieldStep(th) ==
    /\ pc[th] = "yield"
    /\ pc' = [pc EXCEPT ![th] = "read"]
    /\ UNCHANGED <<detVars, alertVars, session_stats, current_status, seqVars,
                   loc, passes, cs_pass, ear_by, rpc, safe_status, snap_by>>

\* the client has gone: the generator is closed at its yield
StreamClose(th) ==
    /\ pc[th] = "yield"
    /\ pc' = [pc EXCEPT ![th] = "off"]
    /\ UNCHANGED <<detVars, alertVars, session_stats, current_status, seqVars,
                   loc, passes, cs_pass, ear_by, rpc, safe_status, snap_by>>

\* GET /status: the handler starts its loop over current_status.items()
get_status_begin ==
    /\ rpc = 0
    /\ requests < MaxRequests
    /\ requests' = requests + 1
    /\ rpc' = 1
    /\ safe_status' = EmptyStatus
    /\ snap_by' = [k \in 1..Len(StatusKeys) |-> 0]
    /\ last_op' = "get_status_begin"
    /\ UNCHANGED <<detVars, alertVars, session_stats, current_status,
                   httpVars, frameDue, ghostVars, session_t0,
                   prev_final, has_prev, changedSince, yawn_model, scn, monitor, streaming, ended, now,
                   pc, loc, passes, cs_pass, ear_by>>

\* one iteration of the loop: safe_status[key] = value; after the last key
\* the copy is returned
get_status_copy ==
    /\ rpc >= 1
    /\ LET key == StatusKeys[rpc]
       IN /\ safe_status' = [safe_status EXCEPT ![key] = current_status[key]]
          /\ snap_by' = [snap_by EXCEPT ![rpc] =
                            IF key \in UpdateKeys THEN cs_pass
                            ELSE IF key = "ear_value" THEN ear_by
                            ELSE 0]
    /\ rpc' = IF rpc = Len(StatusKeys) THEN 0 ELSE rpc + 1
    /\ last_op' = IF rpc = Len(StatusKeys) THEN "get_status" ELSE "get_status_copy"
    /\ UNCHANGED <<detVars, alertVars, session_stats, current_status,
                   httpVars, frameDue, ghostVars, session_t0, requests,
                   prev_final, has_prev, changedSince, yawn_model, scn, monitor, streaming, ended, now,
                   pc, loc, passes, cs_pass, ear_by>>

ConcAlphabets ==
    { Alphabet({Face(0, 20, 400, 0, 0), NoFace}, FALSE, MaxPasses) }

InitConc == InitBase /\ scn \in ConcAlphabets /\ yawn_model = scn.model

NextConc ==
    \/ \E th \in Threads :
          \/ video_feed(th)
          \/ ReadFail(th)
          \/ ReadFrame(th)
          \/ DrowsyStep(th)
          \/ NodStep(th)
          \/ YawnStep(th)
          \/ AbsenceStep(th)
          \/ PublishStep(th)
          \/ YieldStep(th)
          \/ StreamClose(th)
    \/ get_status_begin
    \/ get_status_copy

SpecConc == InitConc /\ [][NextConc]_vars

----------------------------------------------------------------------------
\* The standalone monitor (attention_monitoring_improved.py).  Its main loop
\* starts one thread per alert that fires on a frame; each thread runs one
\* of alert_drowsy, alert_nodding, alert_yawn, alert_absence, which share
\* last_alert_time and take no lock.  Time is in whole seconds.

\* time.time() advances
MonitorTick ==
    /\ monitor.now < MonitorStart + MaxMonitorTime
    /\ monitor' = [monitor EXCEPT !.now = @ + 1]
    /\ UNCHANGED <<detVars, alertVars, session_stats, current_status,
                   concVars, httpVars, frameDue, ghostVars, histVars,
                   yawn_model, scn, streaming, ended, now>>

\* One pass of the main loop on which the alerts of kinds fire:
\* Thread(target=alert_x).start() for each, one live thread per kind.
MonitorFrame(kinds) ==
    /\ kinds # {}
    /\ \A k \in kinds : monitor.pc[k] = "idle"
    /\ monitor' = [monitor EXCEPT
                     !.pc = [k \in AlertKinds |->
                               IF k \in kinds THEN "check" ELSE @[k]]]
    /\ UNCHANGED <<detVars, alertVars, session_stats, current_status,
                   concVars, httpVars, frameDue, ghostVars, histVars,
                   yawn_model, scn, streaming, ended, now>>

\* if time.time() - last_alert_time > ALERT_COOLDOWN: else the thread ends
AlertCheck(k) ==
    /\ monitor.pc[k] = "check"
    /\ monitor' = [monitor EXCEPT !.pc[k] =
                     IF monitor.now - monitor.last_alert_time > ALERT_COOLDOWN
                     THEN "sound" ELSE "idle"]
    /\ UNCHANGED <<detVars, alertVars, session_stats, current_status,
                   concVars, httpVars, frameDue, ghostVars, histVars,
                   yawn_model, scn, streaming, ended, now>>

\* sound_alert(): winsound.Beep
AlertSound(k) ==
    /\ monitor.pc[k] = "sound"
    /\ monitor' = [monitor EXCEPT !.pc[k] = "set",
                                  !.prev_sound = monitor.last_sound,
                                  !.last_sound = monitor.now]
    /\ UNCHANGED <<detVars, alertVars, session_stats, current_status,
                   concVars, httpVars, frameDue, ghostVars, histVars,
                   yawn_model, scn, streaming, ended, now>>

\* last_alert_time = time.time(); the thread ends
AlertSet(k) ==
    /\ monitor.pc[k] = "set"
    /\ monitor' = [monitor EXCEPT !.pc[k] = "idle",
                                  !.last_alert_time = monitor.now]
    /\ UNCHANGED <<detVars, alertVars, session_stats, current_status,
                   concVars, httpVars, frameDue, ghostVars, histVars,
                   yawn_model, scn, streaming, ended, now>>

InitAlert == InitBase /\ scn = Alphabet({}, FALSE, 0) /\ yawn_model = scn.model

NextAlert ==
    \/ MonitorTick
    \/ \E kinds \in SUBSET AlertKinds : MonitorFrame(kinds)
    \/ \E k \in AlertKinds :
          \/ AlertCheck(k)
          \/ AlertSound(k)
          \/ AlertSet(k)

SpecAlert == InitAlert /\ [][NextAlert]_vars

----------------------------------------------------------------------------
\* Claims on the drowsiness detector, checked under SpecEar.

\* C2 (as claimed): from the initial state, while the per-frame EAR has
\* alternated between 0.20 and 0.40 on every frame, for up to 50 frames, the
\* drowsiness detector fires on no frame.
C2_AlternatingNeverFires ==
    (frames >= 1 /\ frames <= 50 /\ runs.alt = frames) => ~obs.drowsy

\* C3 (as claimed): when the raw per-frame EAR has been below 0.27 for 10
\* consecutive face-found frames, whatever preceded them, the drowsiness
\* detector has fired on one of those frames.
C3_RawLowRunFires ==
    runs.rawLow >= DROWSY_CONSEC_FRAMES => runs.rawFired

\* C3 (amended): when the smoothed EAR (the mean of recent_ear_values) has
\* been below 0.27 on 10 consecutive face-found frames, whatever preceded
\* them, the consecutive count is at least 10 and the detector fires on the
\* 10th frame and on every later frame of the run.
C3_SmoothedLowRunFires ==
    runs.smLow >= DROWSY_CONSEC_FRAMES =>
        /\ obs.drowsy
        /\ runs.smCount
        /\ drowsy_counter >= DROWSY_CONSEC_FRAMES

\* a run of 10 smoothed-low frames that follows frames that were not
C3_Witness ==
    /\ runs.smLow = DROWSY_CONSEC_FRAMES
    /\ frames > runs.smLow
    /\ obs.drowsy

\* C9 (as claimed): frames whose eye landmarks are degenerate (EAR = 0)
\* never make the drowsiness detector fire, however many follow each other,
\* and frames whose MAR is the degenerate 0 never make yawning fire.
C9_ZeroIsInconclusive ==
    /\ (frames >= 1 /\ runs.earZero = frames) => ~obs.drowsy
    /\ (frames >= 1 /\ runs.marZero = frames) => ~obs.yawn

\* C25 (as claimed): the score stays below the value that growth by 3 on
\* every frame of the run would reach: the reset policy stops the growth.
C25_ScoreBounded == drowsiness_score < 3 * MaxFrames

\* C28: whenever the drowsiness block fires, the smoothed EAR of the frame
\* is below 0.32.
C28_FiresOnlyBelowBand ==
    (frames >= 1 /\ obs.drowsy) => runs.sum < 32 * runs.len

\* the detector has stopped firing with the score still above 20: the
\* smoothed EAR has reached 0.32
C28_Witness ==
    /\ frames >= 1 /\ obs.face /\ ~obs.drowsy
    /\ runs.prevDet[1] > 20 /\ runs.sum >= 32 * runs.len

\* new is old after one push into a window of capacity cap: one longer, or
\* as long and without its oldest value; the values kept are in their order
IsPush(old, new, cap) ==
    /\ Len(new) = Min2(Len(old) + 1, cap)
    /\ \A i \in 1..(Len(new) - 1) :
          new[i] = old[i + (Len(old) + 1 - Len(new))]

\* new is old after the push of v
IsPushOf(old, new, cap, v) == IsPush(old, new, cap) /\ new[Len(new)] = v

\* C26: the MAR window holds at most 5 values and the EAR, yawn-probability
\* and chin windows at most 10; a frame with a face pushes its EAR, MAR and
\* chin position, and at most one yawn probability, each as the newest
\* value with the oldest evicted when the window was full; the smoothed
\* EAR compared with the thresholds is the mean of the window after the
\* push.
C26_WindowsAreBoundedFifos ==
    /\ Len(mar_list) <= 5 /\ Len(recent_ear_values) <= 10
    /\ Len(yawn_probs) <= 10 /\ Len(chin_positions) <= 10
    /\ (frames >= 1 /\ obs.face /\ obs.threw = "none") =>
        /\ IsPushOf(runs.prevDet[5], recent_ear_values, 10, obs.ear)
        /\ IsPushOf(runs.prevDet[6], mar_list, 5, runs.mar)
        /\ IsPushOf(runs.prevDet[8], chin_positions, 10, runs.chin)
        /\ \/ yawn_probs = runs.prevDet[7]
           \/ IsPush(runs.prevDet[7], yawn_probs, 10)
        /\ runs.sum = SeqSum(recent_ear_values)
        /\ runs.len = Len(recent_ear_values)

\* all four windows full, after pushes that evicted
C26_Witness ==
    /\ frames > 10 /\ obs.face
    /\ Len(runs.prevDet[5]) = 10 /\ Len(runs.prevDet[6]) = 5
    /\ Len(runs.prevDet[7]) = 10 /\ Len(runs.prevDet[8]) = 10
    /\ yawn_probs # runs.prevDet[7]

\* C14: from the initial detector state, while every frame has a face and a
\* per-frame EAR strictly above 0.35, the drowsiness score has not
\* increased on any frame, is not negative, and the detector has not fired.
C14_OpenEyesNeverDrowsy ==
    (frames >= 1 /\ runs.hi = frames) =>
        /\ ~runs.scoreUp
        /\ drowsiness_score >= 0
        /\ ~obs.drowsy

\* several frames just above 0.35 in a row
C14_Witness ==
    /\ frames >= 5 /\ runs.hi = frames /\ obs.ear = 36
    /\ Len(recent_ear_values) >= 5 /\ ~obs.drowsy

\* C15: from the initial detector state, with EAR constant at 0.18 and
\* nodding, yawning and presence not firing, the published state is drowsy
\* on frames 10, 11 and 12, with confidence above 0.8 on frame 10.
C15_ConstantLowEarScenario ==
    (runs.e18 = frames /\ frames >= 10 /\ frames <= 12
        /\ ~obs.nod /\ ~obs.yawn /\ ~obs.absent) =>
        /\ current_status.status = "drowsy"
        /\ (frames = 10 => current_status.confidence > 80)

C15_Witness ==
    /\ runs.e18 = frames /\ frames = 12
    /\ ~obs.nod /\ ~obs.yawn /\ ~obs.absent
    /\ current_status.status = "drowsy"

\* the score and the count the banding of the smoothed EAR (runs.sum over
\* runs.len samples) makes of the score and count before the frame
BandedScore ==
    LET score == runs.prevDet[1]
    IN  IF runs.sum < DROWSY_EAR_THRESHOLD * runs.len THEN score + 3
        ELSE IF runs.sum < 32 * runs.len THEN score + 1
        ELSE IF runs.sum > 35 * runs.len THEN Max2(0, score - 3)
        ELSE Max2(0, score - 1)

BandedCount ==
    IF runs.sum < 32 * runs.len THEN runs.prevDet[2] + 1 ELSE 0

\* the last frame ran the drowsiness block
C22_Case == frames >= 1 /\ obs.face /\ runs.len > 0

\* C22 (as claimed): after a face-found frame the score and the count are
\* exactly what the banding gives; the frame changes the score in no other
\* way.
C22_ScoreRuleAsClaimed ==
    C22_Case =>
        /\ drowsiness_score = BandedScore
        /\ drowsy_counter = BandedCount

\* C22 (amended): after a face-found frame the count is what the banding
\* gives, and the score is what the banding gives, lowered by a further 2
\* (not below 0) when the detector did not fire on the frame and the
\* smoothed EAR is above 0.33.
C22_ScoreRuleWithDecay ==
    C22_Case =>
        /\ drowsy_counter = BandedCount
        /\ drowsiness_score =
              IF ~obs.drowsy /\ runs.sum > 33 * runs.len
              THEN Max2(0, BandedScore - 2) ELSE BandedScore

\* a frame with open eyes that lowers a score of 5 or more by 3 and by 2
C22_Witness ==
    /\ C22_Case /\ runs.sum > 35 * runs.len /\ runs.prevDet[1] >= 5
    /\ drowsiness_score = runs.prevDet[1] - 5

----------------------------------------------------------------------------
\* Claims on the arbiter, checked under SpecArb.

\* the case of C1: a face-found frame on which not_present does not fire
\* and both yawning and drowsiness (or nodding) fire
C1_Case == obs.face /\ ~obs.absent /\ obs.yawn /\ (obs.drowsy \/ obs.nod)

C10_NotPresentWins ==
    (frames >= 1 /\ obs.absent) =>
        /\ current_status.status = "not_present"
        /\ current_status.confidence = 100

C10_Witness == frames >= 1 /\ obs.absent /\ obs.drowsy /\ obs.yawn

\* the last frame was taken with the face missing or turned away
LookingAway == frames >= 1 /\ (~obs.face \/ ~obs.forward)

\* C11: not_present is never published on a frame taken 3 seconds or less
\* after the most recent frame on which the face was found and forward.
C11_NoFalseAbsence ==
    (frames >= 1 /\ runs.fwdAt >= 0
        /\ now - runs.fwdAt <= NOT_ATTENTIVE_THRESHOLD)
    => current_status.status # "not_present"

\* a look-away that has lasted exactly the threshold, after real frames
\* with the face forward
C11_Witness ==
    /\ LookingAway /\ runs.fwdAt >= 1
    /\ now - runs.fwdAt = NOT_ATTENTIVE_THRESHOLD
    /\ current_status.status # "not_present"

\* C12: every frame on which the face is missing or not forward and that
\* is taken more than 3 seconds after last_attentive_time publishes
\* not_present.
C12_AbsencePublished ==
    (LookingAway /\ now - last_attentive_time > NOT_ATTENTIVE_THRESHOLD)
    => current_status.status = "not_present"

\* the scenario: no face on any frame, 4 seconds after last_attentive_time
C12_Witness ==
    /\ LookingAway /\ ~obs.face /\ runs.fwdAt = -1
    /\ now - last_attentive_time = NOT_ATTENTIVE_THRESHOLD + 1
    /\ current_status.status = "not_present"

\* C16: the nodding counter is never negative, and on the 6th and every
\* later one of consecutive evaluation windows (frames with at least 5
\* chin samples) whose 5-sample range exceeds 15 px, detect_nodding fires.
C16_NoddingFires ==
    /\ nodding_counter >= 0
    /\ (frames >= 1 /\ obs.face /\ runs.nodWide >= 6) =>
            (obs.nod /\ nodding_counter > 5)

\* the 6th wide window of a run that began after windows that were not wide
C16_Witness ==
    /\ frames >= 1 /\ obs.face /\ runs.nodWide = 6 /\ frames > 10
    /\ obs.nod

\* the increments the last frame made to yawn_count, drowsy_count and
\* distraction_count
CountDeltas ==
    <<session_stats.yawn_count - runs.prevCounts[1],
      session_stats.drowsy_count - runs.prevCounts[2],
      session_stats.distraction_count - runs.prevCounts[3]>>

\* the last frame entered state st from another state
Entered(st) == obs.status = st /\ runs.prevStatus # st

\* C17: a frame increments the event counter of yawning, drowsy or
\* not_present by one when its state is that state and differs from the
\* previous frame's state, and changes no event counter otherwise.
C17_EdgeTriggeredCounters ==
    frames >= 1 =>
        CountDeltas = <<IF Entered("yawning") THEN 1 ELSE 0,
                        IF Entered("drowsy") THEN 1 ELSE 0,
                        IF Entered("not_present") THEN 1 ELSE 0>>

\* a second frame in a row in state drowsy, counted once
C17_Witness ==
    /\ frames >= 2 /\ obs.status = "drowsy" /\ runs.prevStatus = "drowsy"
    /\ session_stats.drowsy_count = 1 /\ CountDeltas = <<0, 0, 0>>

TimeDeltas ==
    <<session_stats.focused_time - runs.prevTimes[1],
      session_stats.distracted_time - runs.prevTimes[2],
      session_stats.drowsy_time - runs.prevTimes[3]>>

\* C24: the interval between two consecutive aggregator updates is added
\* to the bucket of the state published at the earlier update
\* (not_present to distracted_time, drowsy and yawning to drowsy_time), to
\* no other bucket, and the timer restarts at the later update.
C24_CreditToPreviousState ==
    frames >= 1 =>
        LET interval == now - runs.prevNow
            prev == runs.prevStatus
        IN /\ TimeDeltas =
                <<IF prev = "focused" THEN interval ELSE 0,
                  IF prev = "not_present" THEN interval ELSE 0,
                  IF prev \in {"drowsy", "yawning"} THEN interval ELSE 0>>
           /\ session_stats.state_start_time = now

\* a frame that enters not_present from drowsy: the second is drowsy time
C24_Witness ==
    /\ frames >= 2 /\ runs.prevStatus = "drowsy"
    /\ obs.status = "not_present" /\ now - runs.prevNow = 1
    /\ TimeDeltas = <<0, 0, 1>>

\* C30: last_state is one of the four states; not_present_time and
\* not_present_count stay 0; the time spent in not_present is in
\* distracted_time and the entries into it in distraction_count; the time
\* spent in yawning and in drowsy is in drowsy_time, and the rest in
\* focused_time.
C30_BucketMapping ==
    /\ session_stats.last_state \in States
    /\ session_stats.not_present_time = 0
    /\ session_stats.not_present_count = 0
    /\ session_stats.distracted_time = runs.spent["not_present"]
    /\ session_stats.distraction_count = runs.entered["not_present"]
    /\ session_stats.drowsy_time = runs.spent["drowsy"] + runs.spent["yawning"]
    /\ session_stats.focused_time = runs.spent["focused"]

\* time has been spent in each of the four states
C30_Witness ==
    /\ \A st \in States : runs.spent[st] > 0
    /\ session_stats.distraction_count > 0

\* C18: a frame in which no face is detected leaves the state of the
\* drowsiness, nodding and yawning detectors as it was.
C18_NoFaceSkipsDetectors ==
    (frames >= 1 /\ ~obs.face) => DetectorState = runs.prevDet

\* a frame without a face after frames that left state in every detector
C18_Witness ==
    /\ frames >= 1 /\ ~obs.face
    /\ drowsiness_score > 0 /\ drowsy_counter > 0
    /\ Len(recent_ear_values) > 0 /\ Len(chin_positions) > 0
    /\ Len(mar_list) > 0 /\ Len(yawn_probs) > 0 /\ yawn_counter > 0

\* C21: every published status has one of the four states and a confidence
\* within [0,1] that is the one set by the detector that set the state:
\* 0 for focused, 1 for not_present and for nodding, the window average of
\* the yawn probability for yawning, min(1, score/25) for drowsiness.
C21_StatusWellFormed ==
    /\ current_status.status \in {"focused", "drowsy", "yawning", "not_present"}
    /\ current_status.confidence \in 0..100
    /\ current_status.status = "focused" => current_status.confidence = 0
    /\ (frames >= 1 /\ current_status.status = "not_present") =>
            (obs.absent /\ current_status.confidence = 100)
    /\ (frames >= 1 /\ current_status.status = "yawning") =>
            (obs.yawn /\ current_status.confidence = obs.yconf)
    /\ (frames >= 1 /\ current_status.status = "drowsy") =>
            /\ obs.nod \/ obs.drowsy
            /\ current_status.confidence =
                  IF obs.nod THEN 100 ELSE obs.dconf

\* drowsy published by the drowsiness block with a score above 25
C21_Witness ==
    /\ frames >= 1 /\ current_status.status = "drowsy" /\ ~obs.nod
    /\ drowsiness_score > 25 /\ current_status.confidence = 100

----------------------------------------------------------------------------
\* Claims on the yawning detector, checked under SpecYawn.  runs.yq counts
\* the qualifying frames (smoothed MAR > 0.4 and window average of the yawn
\* probability > 0.85) since the last frame on which the yawning block ran
\* and the frame did not qualify.

\* the last frame is the 17th, 34th, ... of a run of qualifying frames
C13_Case ==
    frames >= 1 /\ obs.face /\ runs.yq > 0 /\ runs.yq % YAWN_CONSEC_FRAMES = 0

\* C13 (as claimed): on the 17th frame of a run of qualifying frames
\* yawning is published.
C13_YawningPublishedOn17th ==
    C13_Case => current_status.status = "yawning"

\* C13 (amended): the yawning detector fires on exactly the 17th, 34th, ...
\* frame of a run of qualifying frames and resets its counter in that
\* frame; yawning is published on those frames unless not_present fires
\* on the same frame, on no other frame, and never on two frames in a row.
C13_YawningSingleShot ==
    (frames >= 1 /\ obs.face) =>
        /\ obs.yawn <=> C13_Case
        /\ yawn_counter = runs.yq % YAWN_CONSEC_FRAMES
        /\ (obs.yawn /\ ~obs.absent) => current_status.status = "yawning"
        /\ current_status.status = "yawning" => C13_Case
        /\ ~runs.pubTwice

\* the second episode: yawning published on the 34th qualifying frame
C13_Witness ==
    /\ C13_Case /\ runs.yq = 2 * YAWN_CONSEC_FRAMES
    /\ current_status.status = "yawning" /\ yawn_counter = 0

----------------------------------------------------------------------------
\* Claims on failures, checked under SpecErr.

\* C19 (as claimed): when no classifier is loaded, or the classifier has
\* thrown on an earlier frame of the run, the classifier is not invoked.
C19_FallbackPermanent ==
    (frames >= 1 /\ (~yawn_model \/ runs.threwBefore)) => ~runs.invoked

\* C20 (as claimed): a frame on which a detection step raised is still
\* published, the step that raised reports no detection, and the loop
\* goes on.
C20_ExceptionsCaught ==
    (frames >= 1 /\ obs.threw # "none") =>
        /\ streaming
        /\ current_status.timestamp = now
        /\ (obs.threw = "drowsiness" => ~obs.drowsy)
        /\ (obs.threw = "nodding" => ~obs.nod)
        /\ (obs.threw = "yawning" => ~obs.yawn)

----------------------------------------------------------------------------
\* Claims on the session handlers, checked under SpecSession.

\* C4 (as claimed): when start_session has returned, the statistics and
\* every detector's state are as at start-up.
C4_ResetRestoresDetectors ==
    last_op = "start_session" =>
        /\ session_stats = InitStats(now)
        /\ drowsiness_score = 0 /\ drowsy_counter = 0
        /\ yawn_counter = 0 /\ nodding_counter = 0
        /\ recent_ear_values = <<>> /\ mar_list = <<>>
        /\ yawn_probs = <<>> /\ chin_positions = <<>>
        /\ last_attentive_time \in {0, now}

\* the sum of the per-state cumulative durations
DurationSum(ss) ==
    ss.focused_time + ss.distracted_time + ss.drowsy_time + ss.not_present_time

\* C5 (as claimed): at every point between frames the sum of the per-state
\* durations is the time elapsed since the session was started or last
\* reset, within one frame interval (one tick).
C5_DurationsSumToElapsed ==
    Abs(DurationSum(session_stats) - (now - session_t0)) <= 1

\* the durations and event counts of a statistics snapshot
StatsView(ss) ==
    <<ss.focused_time, ss.distracted_time, ss.drowsy_time, ss.not_present_time,
      ss.yawn_count, ss.drowsy_count, ss.distraction_count>>

\* C6 (as claimed): two successive end-of-session requests with no frame
\* between them (and no reset, at the same instant) report the same
\* durations and event counts.
C6_StatsQueryIdempotent ==
    (has_final /\ has_prev) => StatsView(final_stats) = StatsView(prev_final)

\* C23 (as claimed): once end_session has flushed and stored the
\* statistics, and until the next start_session, the durations and event
\* counters of session_stats stay as reported, whatever frames are
\* processed.
C23_ReadOnlyAfterEnd ==
    (ended /\ has_final) => StatsView(session_stats) = StatsView(final_stats)

----------------------------------------------------------------------------
\* Claims on concurrency, checked under SpecConc.

\* the locations of a pass between reading its frame and yielding it
InPipeline == {"drowsy", "nod", "yawn", "absence", "publish"}

\* C7 (as claimed): at most one frame-processing pass is inside the
\* detector pipeline at any time.
C7_OnePassInPipeline ==
    Cardinality({th \in Threads : pc[th] \in InPipeline}) <= 1

\* C8 (as claimed): the snapshot a /status request returns never holds, in
\* the fields each pass publishes together, values written by two
\* different passes (pass 0 is the content set at import).
C8_SnapshotNotTorn ==
    last_op = "get_status" =>
        \A i, j \in 1..Len(StatusKeys) :
            (/\ StatusKeys[i] \in UpdateKeys /\ StatusKeys[j] \in UpdateKeys
             /\ snap_by[i] > 0 /\ snap_by[j] > 0)
                => snap_by[i] = snap_by[j]

----------------------------------------------------------------------------
\* Claim on the standalone monitor, checked under SpecAlert.

\* C29 (as claimed): no two alert sounds, of any kind and from any thread,
\* are emitted less than ALERT_COOLDOWN seconds apart.
C29_CooldownAcrossThreads ==
    monitor.prev_sound # NoSound =>
        monitor.last_sound - monitor.prev_sound >= ALERT_COOLDOWN

====
